---- MODULE Spec2Model ----
(***************************************************************************)
(* Page objects of the creai.mx end-to-end suite: BasePage (goto, getTitle, *)
(* waitForLoadState), Header (clickMenuItem) and HomePage (the isXVisible   *)
(* probes), run against one browser page.  Every `await` on the driver is   *)
(* one step; the page (DOM, URL, consent banner, viewport) is the           *)
(* environment the driver calls observe and change.                         *)
(***************************************************************************)
EXTENDS Integers, Sequences, FiniteSets, TLC

(* ------------------------------ bounds --------------------------------- *)

\* how many edits turn the page the tests expect into the page under test
MaxDomEdits == 1
\* most elements one HomePage descriptor matches
MaxMatch == 2
\* largest index handed to clickMenuItem
MaxIndex == 2
\* tests the runner has in flight at once
NumTests == 2
\* most console messages a page emits while the load test runs
MaxMessages == 3

(* ------------------------- accessible names ---------------------------- *)

\* Names are sequences of characters, so that matching is computed.
SuccessStories == <<"S","u","c","c","e","s","s"," ","s","t","o","r","i","e","s">>
SuccessStoriesLower == <<"s","u","c","c","e","s","s"," ","s","t","o","r","i","e","s">>
OurSuccessStories == <<"O","u","r"," ">> \o SuccessStoriesLower
AboutUs == <<"A","b","o","u","t"," ","u","s">>
Pricing == <<"P","r","i","c","i","n","g">>
NameMenu == <<"m","e","n","u">>
NameOpenMenu == <<"O","p","e","n"," ","m","e","n","u">>

Lower(c) ==
    CASE c = "S" -> "s"
      [] c = "A" -> "a"
      [] c = "O" -> "o"
      [] c = "P" -> "p"
      [] c = "M" -> "m"
      [] OTHER -> c

LowerSeq(s) == [i \in 1..Len(s) |-> Lower(s[i])]

Contains(hay, needle) ==
    \E i \in 0..(Len(hay) - Len(needle)) :
        SubSeq(hay, i + 1, i + Len(needle)) = needle

\* A substring match that tells upper case from lower case.
NameMatchesCaseSensitive(name, text, exact) ==
    IF exact THEN name = text ELSE Contains(name, text)

\* getByRole(role, {name, exact}): exact is a case-sensitive whole-string
\* match, otherwise a case-insensitive substring match.
NameMatches(name, text, exact) ==
    IF exact THEN name = text
    ELSE Contains(LowerSeq(name), LowerSeq(text))

(* ------------------------------ the page ------------------------------- *)

BlankUrl == "about:blank"
HomeUrl == "/"

Link(region, name, href, shown) ==
    [region |-> region, name |-> name, href |-> href, shown |-> shown]

\* The header navigation the smoke tests expect on every page of the site.
TestedLinks ==
    << Link("nav", SuccessStories, "/success-stories", TRUE),
       Link("nav", AboutUs, "/about-us", TRUE) >>

TestedButtons == << NameMenu >>

\* Links an edit may add: duplicates of a menu entry outside the navigation,
\* and entries whose name differs in case or merely contains the text.
ExtraLinks ==
    { Link("body", SuccessStories, "/blog", TRUE),
      Link("body", SuccessStories, "/blog", FALSE),
      Link("nav", OurSuccessStories, "/blog", TRUE),
      Link("nav", SuccessStoriesLower, "/blog", TRUE) }

ExtraButtons == { NameMenu, NameOpenMenu }

InsertAt(s, i, e) == SubSeq(s, 1, i - 1) \o <<e>> \o SubSeq(s, i, Len(s))
RemoveAt(s, i) == SubSeq(s, 1, i - 1) \o SubSeq(s, i + 1, Len(s))

RECURSIVE BoolSeqs(_)
BoolSeqs(n) ==
    IF n = 0 THEN { <<>> }
    ELSE LET shorter == BoolSeqs(n - 1)
         IN  shorter \cup { Append(s, b) : s \in { t \in shorter : Len(t) = n - 1 },
                                          b \in BOOLEAN }

VARIABLES
    url,          \* URL of the loaded document
    links,        \* the site's links in document order
    buttons,      \* names of the site's buttons in document order
    viewport,     \* "desktop" | "mobile"
    drawerOpen,   \* the mobile menu drawer is expanded
    consent,      \* "none" | "pending" | "showing" | "dismissed"
    session,      \* "up" | "crashed"
    edits,        \* edits applied to the tested page
    op,           \* the page-object call in progress or just finished
    pc,           \* the await the call is suspended at
    cmds,         \* driver commands issued by the call, oldest first
    result,       \* "none" | "ok" | the failure raised to the caller
    ret,          \* the value returned to the caller
    logged,       \* goto wrote its console.log line in this call
    homePages,    \* per test of a parallel run: the HomePage its beforeEach built
    browserPages, \* per browser page of a parallel run: its state and its users
    tpc,          \* where the 'should load the page successfully' test is
    emitted,      \* console messages the page has emitted, oldest first
    listening,    \* the test's console handler is registered
    consoleErrors, \* the test's list: places in `emitted` of the errors it heard
    verdict       \* "none" | "passed" | "failed"

vars == << url, links, buttons, viewport, drawerOpen, consent, session, edits,
           op, pc, cmds, result, ret, logged, homePages, browserPages,
           tpc, emitted, listening, consoleErrors, verdict >>

parallel == << homePages, browserPages >>

smoke == << tpc, emitted, listening, consoleErrors, verdict >>

page == << url, links, buttons, viewport, drawerOpen, consent, session, edits >>

Loaded == url # BlankUrl

Tests == 1..NumTests

\* `let homePage` before beforeEach has run: no browser page behind it
NoHomePage == [page |-> 0, title |-> "none", expect |-> BlankUrl]

\* The browser page of a new context: nothing loaded, no consent stored,
\* no command received yet.
FreshPage == [url |-> BlankUrl, consent |-> "showing", from |-> {}]

\* A call: the method, its argument, and the page it was issued on.
\* `prev` of a clickMenuItem call remembers what the hamburger probe of the
\* call just before returned, when that call was a clickMenuItem too.
NoOp == [name |-> "none", text |-> <<>>, n |-> 0, d |-> "-",
         url |-> BlankUrl, drawer |-> FALSE, prev |-> "none"]

Init ==
    /\ url = BlankUrl
    /\ links = TestedLinks
    /\ buttons = TestedButtons
    /\ viewport \in {"desktop", "mobile"}
    /\ drawerOpen = FALSE
    /\ consent \in {"none", "pending", "showing", "dismissed"}
    /\ session = "up"
    /\ edits = 0
    /\ op = NoOp
    /\ pc = "idle"
    /\ cmds = <<>>
    /\ result = "none"
    /\ ret = "none"
    /\ logged = FALSE
    /\ homePages = [t \in Tests |-> NoHomePage]
    /\ browserPages = [h \in Tests |-> FreshPage]
    /\ tpc = "beforeEach"
    /\ emitted = <<>>
    /\ listening = FALSE
    /\ consoleErrors = <<>>
    /\ verdict = "none"

(* ------------------------------ the driver ----------------------------- *)

\* The consent probe, whose value is not used, fired without an await.
AwaitsButConsentProbe(cmd, target) ==
    ~(cmd = "isVisible" /\ target = "COOKIE_ACCEPT_BUTTON")

\* Every driver call of the page objects is awaited: the method goes on
\* only after the command has settled.
Awaits(cmd, target) == TRUE

\* A driver command as the log keeps it: `settled` says the command had
\* completed when the method went on.
Cmd(cmd, target, out, hit) ==
    [cmd |-> cmd, target |-> target, out |-> out, hit |-> hit, seen |-> <<>>,
     at |-> 0, settled |-> Awaits(cmd, target)]

Failures == {"neterror", "timeout", "crash", "strict"}
Failed(out) == out \in Failures

\* What a driver call can end with: `normal`, or a session crash at any call.
Outcomes(normal) == normal \cup {"crash"}

SessionAfter(out) == IF out = "crash" THEN "crashed" ELSE session

Bool(b) == IF b THEN "true" ELSE "false"

\* locator.isVisible() on the visibility flags of the elements it matches:
\* a strict locator rejects two or more matches, no match is "not visible".
IsVisibleStrict(matched) ==
    IF Len(matched) = 0 THEN "false"
    ELSE IF Len(matched) > 1 THEN "strict"
    ELSE Bool(matched[1])

\* The page a successful navigation loads shows the banner again unless
\* the environment has none or consent was given in this session.
ConsentOnLoad ==
    IF consent \in {"none", "dismissed"} THEN {consent}
    ELSE {"pending", "showing"}

\* The test issues its next call once the previous one has ended; the runner
\* tears a test down once its session has crashed.
Ready == pc \in {"idle", "done"} /\ session = "up"

LastProbe(o) ==
    IF /\ o.name = "clickMenuItem"
       /\ op.name = "clickMenuItem"
       /\ cmds # <<>>
       /\ cmds[1].out \in {"true", "false"}
    THEN cmds[1].out
    ELSE "none"

Begin(o, first) ==
    /\ Ready
    /\ op' = [o EXCEPT !.url = url, !.drawer = drawerOpen, !.prev = LastProbe(o)]
    /\ pc' = first
    /\ cmds' = <<>>
    /\ result' = "none"
    /\ ret' = "none"
    /\ logged' = FALSE
    /\ UNCHANGED << page, parallel, smoke >>

\* HomePage is the page object of '/', and its other methods are called
\* before the first goto() or on that page; a test that has left the page
\* comes back with goto().
OnPage == url \in {BlankUrl, HomeUrl}

BeginOnPage(o, first) == OnPage /\ Begin(o, first)

(* ------------------------------ BasePage ------------------------------- *)

\* An uncaught rejection that is lost on the way to the caller.
GotoUncaughtSwallowed(out) == "ok"

\* An await outside any try block: the rejection leaves the method as it is.
GotoUncaught(out) == out

\* A catch that lets the failure through.
GotoCatchRethrow(out) == out

\* A navigation that stays on the document already loaded.
GotoUrlStale == url

\* page.goto(this.url): the path the page object was constructed with
GotoUrl == HomeUrl

\* The awaits of goto in another order: the consent step before the
\* DOM-ready wait.
GotoNextSwapped(step) ==
    CASE step = "goto_navigate" -> "goto_probe"
      [] step = "goto_probe" -> "goto_click"
      [] step = "goto_click" -> "goto_waitdom"
      [] OTHER -> "done"

\* The awaits of goto in program order.
GotoNext(step) ==
    CASE step = "goto_navigate" -> "goto_waitdom"
      [] step = "goto_waitdom" -> "goto_probe"
      [] step = "goto_probe" -> "goto_click"
      [] OTHER -> "done"

\* The bare catch of goto swallows whatever the try block raised.
GotoCatch(out) == "ok"

CallGoto == Begin([NoOp EXCEPT !.name = "goto"], "goto_navigate")

GotoNavigate ==
    /\ pc = "goto_navigate"
    /\ \E out \in Outcomes({"ok", "neterror", "timeout"}) :
        /\ cmds' = Append(cmds, Cmd("goto", GotoUrl, out, "-"))
        /\ session' = SessionAfter(out)
        /\ IF Failed(out)
           THEN /\ result' = GotoUncaught(out)
                /\ pc' = "done"
                /\ UNCHANGED << url, drawerOpen, consent >>
           ELSE /\ url' = GotoUrl
                /\ drawerOpen' = FALSE
                /\ consent' \in ConsentOnLoad
                /\ pc' = GotoNext(pc)
                /\ UNCHANGED result
    /\ UNCHANGED << links, buttons, viewport, edits, parallel, smoke, op, ret,
                    logged >>

GotoWaitDom ==
    /\ pc = "goto_waitdom"
    /\ \E out \in Outcomes({"ok", "timeout"}) :
        /\ cmds' = Append(cmds, Cmd("waitForLoadState", "domcontentloaded", out, "-"))
        /\ session' = SessionAfter(out)
        /\ IF Failed(out)
           THEN /\ result' = GotoUncaught(out)
                /\ pc' = "done"
           ELSE /\ pc' = GotoNext(pc)
                /\ UNCHANGED result
    /\ UNCHANGED << url, links, buttons, viewport, drawerOpen, consent,
                    edits, parallel, smoke, op, ret, logged >>

\* cookieButton.isVisible(): the value is dropped, only a rejection matters.
GotoProbe ==
    /\ pc = "goto_probe"
    /\ \E out \in Outcomes({Bool(consent = "showing")}) :
        /\ cmds' = Append(cmds, Cmd("isVisible", "COOKIE_ACCEPT_BUTTON", out, "-"))
        /\ session' = SessionAfter(out)
        /\ IF Failed(out)
           THEN /\ result' = GotoCatch(out)
                /\ logged' = (GotoCatch(out) = "ok")
                /\ pc' = "done"
           ELSE /\ pc' = GotoNext(pc)
                /\ UNCHANGED << result, logged >>
    /\ UNCHANGED << url, links, buttons, viewport, drawerOpen, consent,
                    edits, parallel, smoke, op, ret >>

\* cookieButton.click(): succeeds on a showing banner, otherwise waits for
\* the control until the budget ends.
GotoClick ==
    /\ pc = "goto_click"
    /\ \E out \in Outcomes({IF consent = "showing" THEN "ok" ELSE "timeout"}) :
        /\ cmds' = Append(cmds, Cmd("click", "COOKIE_ACCEPT_BUTTON", out, "-"))
        /\ session' = SessionAfter(out)
        /\ consent' = IF out = "ok" THEN "dismissed" ELSE consent
        /\ result' = IF Failed(out) THEN GotoCatch(out) ELSE "ok"
        /\ logged' = (Failed(out) /\ GotoCatch(out) = "ok")
        /\ pc' = GotoNext(pc)
    /\ UNCHANGED << url, links, buttons, viewport, drawerOpen, edits,
                    parallel, smoke, op, ret >>

CallGetTitle == BeginOnPage([NoOp EXCEPT !.name = "getTitle"], "title")

\* A title read that loads the page object's path first.
GetTitleNavigates ==
    /\ pc = "title"
    /\ \E out \in Outcomes({"ok"}) :
        /\ cmds' = Append(cmds, Cmd("goto", GotoUrl, out, "-"))
        /\ session' = SessionAfter(out)
        /\ url' = IF out = "ok" THEN GotoUrl ELSE url
        /\ drawerOpen' = (drawerOpen /\ out # "ok")
        /\ result' = out
        /\ ret' = IF out = "ok" THEN GotoUrl ELSE "none"
        /\ pc' = "done"
    /\ UNCHANGED << links, buttons, viewport, consent, edits, parallel,
                    smoke, op,
                    logged >>

\* return await this.page.title()
GetTitle ==
    /\ pc = "title"
    /\ \E out \in Outcomes({"ok"}) :
        /\ cmds' = Append(cmds, Cmd("title", "page", out, "-"))
        /\ session' = SessionAfter(out)
        /\ result' = out
        /\ ret' = IF out = "ok" THEN url ELSE "none"
        /\ pc' = "done"
    /\ UNCHANGED << url, links, buttons, viewport, drawerOpen, consent,
                    edits, parallel, smoke, op, logged >>

LoadStates == {"load", "domcontentloaded", "networkidle"}

CallWaitForLoadState ==
    \E st \in LoadStates :
        BeginOnPage([NoOp EXCEPT !.name = "waitForLoadState", !.d = st], "waitload")

WaitForLoadState ==
    /\ pc = "waitload"
    /\ \E out \in Outcomes({"ok", "timeout"}) :
        /\ cmds' = Append(cmds, Cmd("waitForLoadState", op.d, out, "-"))
        /\ session' = SessionAfter(out)
        /\ result' = out
        /\ pc' = "done"
    /\ UNCHANGED << url, links, buttons, viewport, drawerOpen, consent,
                    edits, parallel, smoke, op, ret, logged >>

(* ------------------------------- Header -------------------------------- *)

\* A failure caught and dropped inside clickMenuItem.
HeaderUncaughtSwallowed(out) == "ok"

\* A failure re-raised as the navigation timeout.
HeaderUncaughtWrapped(out) == "timeout"

\* Nothing in clickMenuItem is inside a try block.
HeaderUncaught(out) == out

\* A navigation link is rendered inline on the desktop layout and inside
\* the drawer on the mobile layout.
LinkVisible(l) ==
    /\ l.shown
    /\ (l.region = "nav" => (viewport = "desktop" \/ drawerOpen))

\* The hamburger is laid out only on the mobile viewport.
ButtonVisible == viewport = "mobile"

ButtonsNamed(text, exact) ==
    LET Hit(b) == NameMatches(b, text, exact)
    IN  IF Loaded THEN SelectSeq(buttons, Hit) ELSE <<>>

ButtonFlags(text, exact) ==
    [i \in 1..Len(ButtonsNamed(text, exact)) |-> ButtonVisible]

\* page.getByRole('button', { name: 'menu', exact: false })
HamburgerFlags == ButtonFlags(NameMenu, FALSE)

\* the link elements of the document, each with its place in document order
Elements ==
    [i \in DOMAIN links |->
        [region |-> links[i].region, name |-> links[i].name,
         href |-> links[i].href, shown |-> links[i].shown, at |-> i]]

\* page.locator('header nav a')
MenuItems ==
    LET InNav(l) == l.region = "nav"
    IN  IF Loaded THEN SelectSeq(Elements, InNav) ELSE <<>>

\* page.getByRole('link', { name: text, exact: false })
LinksNamed(text) ==
    LET Hit(l) == NameMatches(l.name, text, FALSE)
    IN  IF Loaded THEN SelectSeq(Elements, Hit) ELSE <<>>

\* A position counted from one.
NthFromOne(s, n) == IF n >= 1 /\ n <= Len(s) THEN << s[n] >> ELSE <<>>

\* .nth(n) and .first(): the elements a click or wait resolves to
Nth(s, n) == IF n + 1 <= Len(s) THEN << s[n + 1] >> ELSE <<>>

\* The first element that is visible.
FirstVisible(s) == Nth(SelectSeq(s, LinkVisible), 0)

First(s) == Nth(s, 0)

\* locator.click() and locator.waitFor({state: 'visible'}) on the links the
\* locator resolves to: they wait for a visible element until the budget ends.
WhenVisible(target) ==
    IF Len(target) = 1 /\ LinkVisible(target[1]) THEN "ok" ELSE "timeout"

Region(target) == IF Len(target) = 1 THEN target[1].region ELSE "-"

\* the place in document order of the link a locator resolved to, 0 if none
LinkAt(target) == IF Len(target) = 1 THEN target[1].at ELSE 0

Texts == {SuccessStories, AboutUs, Pricing}

CallClickMenuItem ==
    \/ \E t \in Texts :
        BeginOnPage([NoOp EXCEPT !.name = "clickMenuItem", !.d = "text", !.text = t],
              "cmi_probe")
    \/ \E n \in 0..MaxIndex :
        BeginOnPage([NoOp EXCEPT !.name = "clickMenuItem", !.d = "index", !.n = n],
              "cmi_probe")

\* An item step whose promise never settles.
CmiItemStepUnsettled == "cmi_unsettled"

\* the step after the hamburger handling
CmiItemStep == IF op.d = "index" THEN "cmi_nth" ELSE "cmi_waitfor"

\* The hamburger handling left out.
CmiAfterProbeNever(out) == CmiItemStep

\* The hamburger clicked whatever the probe said.
CmiAfterProbeAlways(out) == "cmi_toggle"

\* if (await menuButton.isVisible()) { await menuButton.click(); }
CmiAfterProbe(out) == IF out = "true" THEN "cmi_toggle" ELSE CmiItemStep

\* The answer of the previous call's probe kept and reused.
HamburgerProbeStored ==
    IF op.prev # "none" THEN op.prev ELSE IsVisibleStrict(HamburgerFlags)

\* menuButton is looked up and probed anew in every call
HamburgerProbe == IsVisibleStrict(HamburgerFlags)

\* await menuButton.isVisible()
CmiProbe ==
    /\ pc = "cmi_probe"
    /\ \E out \in Outcomes({HamburgerProbe}) :
        /\ cmds' = Append(cmds, Cmd("isVisible", "menuButton", out, "-"))
        /\ session' = SessionAfter(out)
        /\ IF Failed(out)
           THEN /\ result' = HeaderUncaught(out)
                /\ pc' = "done"
           ELSE /\ pc' = CmiAfterProbe(out)
                /\ UNCHANGED result
    /\ UNCHANGED << url, links, buttons, viewport, drawerOpen, consent,
                    edits, parallel, smoke, op, ret, logged >>

\* await menuButton.click(): the hamburger toggles the drawer
CmiToggle ==
    /\ pc = "cmi_toggle"
    /\ \E out \in Outcomes({IF IsVisibleStrict(HamburgerFlags) = "true"
                            THEN "ok" ELSE "timeout"}) :
        /\ cmds' = Append(cmds, Cmd("click", "menuButton", out, "-"))
        /\ session' = SessionAfter(out)
        /\ drawerOpen' = IF out = "ok" THEN ~drawerOpen ELSE drawerOpen
        /\ IF Failed(out)
           THEN /\ result' = HeaderUncaught(out)
                /\ pc' = "done"
           ELSE /\ pc' = CmiItemStep
                /\ UNCHANGED result
    /\ UNCHANGED << url, links, buttons, viewport, consent, edits, parallel,
                    smoke,
                    op, ret, logged >>

\* A click on a link loads the page the link points to.
ClickLink(target, out) ==
    IF out = "ok"
    THEN /\ url' = target[1].href
         /\ drawerOpen' = FALSE
         /\ consent' \in ConsentOnLoad
    ELSE UNCHANGED << url, drawerOpen, consent >>

\* await this.menuItems.nth(nameOrIndex).click()
CmiNth ==
    /\ pc = "cmi_nth"
    /\ LET target == Nth(MenuItems, op.n)
       IN  \E out \in Outcomes({WhenVisible(target)}) :
            /\ cmds' = Append(cmds, [Cmd("click", "menuItems.nth", out, Region(target))
                                     EXCEPT !.at = LinkAt(target)])
            /\ session' = SessionAfter(out)
            /\ ClickLink(target, out)
            /\ result' = IF Failed(out) THEN HeaderUncaught(out) ELSE "ok"
            /\ pc' = "done"
    /\ UNCHANGED << links, buttons, viewport, edits, parallel, smoke, op, ret,
                    logged >>

\* const menuItem = this.page.getByRole('link', {...}).first()
MenuItem == First(LinksNamed(op.text))

\* await menuItem.waitFor({ state: 'visible' })
CmiWaitFor ==
    /\ pc = "cmi_waitfor"
    /\ \E out \in Outcomes({WhenVisible(MenuItem)}) :
        /\ cmds' = Append(cmds, [Cmd("waitFor", "menuItem", out, Region(MenuItem))
                                 EXCEPT !.at = LinkAt(MenuItem)])
        /\ session' = SessionAfter(out)
        /\ IF Failed(out)
           THEN /\ result' = HeaderUncaught(out)
                /\ pc' = "done"
           ELSE /\ pc' = "cmi_click"
                /\ UNCHANGED result
    /\ UNCHANGED << url, links, buttons, viewport, drawerOpen, consent,
                    edits, parallel, smoke, op, ret, logged >>

\* await menuItem.click()
CmiClick ==
    /\ pc = "cmi_click"
    /\ \E out \in Outcomes({WhenVisible(MenuItem)}) :
        /\ cmds' = Append(cmds, [Cmd("click", "menuItem", out, Region(MenuItem))
                                 EXCEPT !.at = LinkAt(MenuItem)])
        /\ session' = SessionAfter(out)
        /\ ClickLink(MenuItem, out)
        /\ result' = IF Failed(out) THEN HeaderUncaught(out) ELSE "ok"
        /\ pc' = "done"
    /\ UNCHANGED << links, buttons, viewport, edits, parallel, smoke, op, ret,
                    logged >>

(* ------------------------------- HomePage ------------------------------ *)

\* The elements a descriptor matches, as their visibility flags in document
\* order: resolved anew at every query; a blank document matches nothing.
Query == IF Loaded THEN BoolSeqs(MaxMatch) ELSE { <<>> }

\* A probe that waits for its element and fails when there is none.
IsVisibleFirstRaises(matched) ==
    IF Len(matched) = 0 THEN "timeout" ELSE Bool(matched[1])

\* locator.first().isVisible()
IsVisibleFirst(matched) ==
    IF Len(matched) = 0 THEN "false" ELSE Bool(matched[1])

\* page.getByRole('button', { name: 'menu', exact: true })
MenuButtonFlags == ButtonFlags(NameMenu, TRUE)

Probe(d) == BeginOnPage([NoOp EXCEPT !.name = "isVisible", !.d = d], "probe")

CallIsLogoVisible == Probe("LOGO")
CallIsContactButtonVisible == Probe("CONTACT_BUTTON")
CallIsNavigationMenuVisible == Probe("NAVIGATION_MENU")
CallIsClientsVisible == Probe("CLIENTS")
CallIsSuccessStoriesVisible == Probe("SUCCESS_STORIES")
CallIsKnowledgeHubVisible == Probe("KNOWLEDGE_HUB")
CallIsAboutUsVisible == Probe("ABOUT_US")

\* return await this.<element>.first().isVisible()
ProbeFirst ==
    /\ pc = "probe"
    /\ \E seen \in Query :
        \E out \in Outcomes({IsVisibleFirst(seen)}) :
            /\ cmds' = Append(cmds, [Cmd("isVisible", op.d, out, "-")
                    EXCEPT !.seen = IF out = "crash" THEN <<>> ELSE seen])
            /\ session' = SessionAfter(out)
            /\ result' = IF Failed(out) THEN out ELSE "ok"
            /\ ret' = IF Failed(out) THEN "none" ELSE out
            /\ pc' = "done"
    /\ UNCHANGED << url, links, buttons, viewport, drawerOpen, consent,
                    edits, parallel, smoke, op, logged >>

CallIsMenuButtonVisible ==
    BeginOnPage([NoOp EXCEPT !.name = "isVisible", !.d = "MENU_BUTTON"], "menu_first")

\* await this.menuButton.isVisible()  (the value is dropped)
MenuButtonFirst ==
    /\ pc = "menu_first"
    /\ \E out \in Outcomes({IsVisibleStrict(MenuButtonFlags)}) :
        /\ cmds' = Append(cmds, [Cmd("isVisible", op.d, out, "-")
                                    EXCEPT !.seen = MenuButtonFlags])
        /\ session' = SessionAfter(out)
        /\ IF Failed(out)
           THEN /\ result' = out
                /\ pc' = "done"
           ELSE /\ pc' = "menu_second"
                /\ UNCHANGED result
    /\ UNCHANGED << url, links, buttons, viewport, drawerOpen, consent,
                    edits, parallel, smoke, op, ret, logged >>

\* return await this.menuButton.isVisible()
MenuButtonSecond ==
    /\ pc = "menu_second"
    /\ \E out \in Outcomes({IsVisibleStrict(MenuButtonFlags)}) :
        /\ cmds' = Append(cmds, [Cmd("isVisible", op.d, out, "-")
                                    EXCEPT !.seen = MenuButtonFlags])
        /\ session' = SessionAfter(out)
        /\ result' = IF Failed(out) THEN out ELSE "ok"
        /\ ret' = IF Failed(out) THEN "none" ELSE out
        /\ pc' = "done"
    /\ UNCHANGED << url, links, buttons, viewport, drawerOpen, consent,
                    edits, parallel, smoke, op, logged >>

(* --------------------------- the environment --------------------------- *)

call == << op, pc, cmds, result, ret, logged >>

\* The page under test differs from the tested page by a few edits, made
\* before the test starts: at most one to its links and one to its buttons.
CanEdit == pc = "idle" /\ edits < MaxDomEdits

EditInsertLink ==
    /\ CanEdit
    /\ links = TestedLinks
    /\ \E i \in 1..(Len(links) + 1), l \in ExtraLinks :
        links' = InsertAt(links, i, l)
    /\ edits' = edits + 1
    /\ UNCHANGED << url, buttons, viewport, drawerOpen, consent, session,
                    parallel, smoke >>
    /\ UNCHANGED call

EditRemoveLink ==
    /\ CanEdit
    /\ links = TestedLinks
    /\ \E i \in 1..Len(links) : links' = RemoveAt(links, i)
    /\ edits' = edits + 1
    /\ UNCHANGED << url, buttons, viewport, drawerOpen, consent, session,
                    parallel, smoke >>
    /\ UNCHANGED call

EditInsertButton ==
    /\ CanEdit
    /\ buttons = TestedButtons
    /\ \E i \in 1..(Len(buttons) + 1), b \in ExtraButtons :
        buttons' = InsertAt(buttons, i, b)
    /\ edits' = edits + 1
    /\ UNCHANGED << url, links, viewport, drawerOpen, consent, session,
                    parallel, smoke >>
    /\ UNCHANGED call

EditRemoveButton ==
    /\ CanEdit
    /\ buttons = TestedButtons
    /\ \E i \in 1..Len(buttons) : buttons' = RemoveAt(buttons, i)
    /\ edits' = edits + 1
    /\ UNCHANGED << url, links, viewport, drawerOpen, consent, session,
                    parallel, smoke >>
    /\ UNCHANGED call

\* The consent script displays its dialog some time after the document
\* loads, possibly while goto is in its consent step.
BannerShow ==
    /\ pc \in {"goto_probe", "goto_click"}
    /\ consent = "pending"
    /\ consent' = "showing"
    /\ UNCHANGED << url, links, buttons, viewport, drawerOpen, session,
                    edits, parallel, smoke >>
    /\ UNCHANGED call

\* The window is resized between two calls; the layout change collapses the drawer.
Resize ==
    /\ Ready
    /\ Loaded
    /\ viewport' = IF viewport = "desktop" THEN "mobile" ELSE "desktop"
    /\ drawerOpen' = FALSE
    /\ UNCHANGED << url, links, buttons, consent, session, edits, parallel,
                    smoke >>
    /\ UNCHANGED call

(* --------------------------- tests in parallel -------------------------- *)

\* One browser page handed to every test.
PageFixtureShared(t) == 1

\* The `page` fixture: the runner hands each test a browser page of its own.
PageFixture(t) == t

\* homePage = new HomePage(page): the page object keeps the handle it was
\* given; `expect` is the URL the test's own calls have put its page at.
BeforeEach(t) ==
    /\ homePages[t] = NoHomePage
    /\ homePages' = [homePages EXCEPT
                        ![t] = [page |-> PageFixture(t), title |-> "none",
                                expect |-> browserPages[PageFixture(t)].url]]
    /\ UNCHANGED << browserPages, page, call, smoke >>

\* the browser page h after test t has sent it a command that left it as p
Received(h, t, p) ==
    [browserPages EXCEPT ![h] = [p EXCEPT !.from = browserPages[h].from \cup {t}]]

\* await homePage.goto(), as a whole
TestGoto(t) ==
    /\ homePages[t] # NoHomePage
    /\ LET h == homePages[t].page
       IN  \E ok \in BOOLEAN :
            IF ok
            THEN /\ browserPages' =
                        Received(h, t, [browserPages[h] EXCEPT
                                            !.url = GotoUrl,
                                            !.consent = "dismissed"])
                 /\ homePages' = [homePages EXCEPT ![t].expect = GotoUrl]
            ELSE /\ browserPages' = Received(h, t, browserPages[h])
                 /\ UNCHANGED homePages
    /\ UNCHANGED << page, call, smoke >>

\* await homePage.header.clickMenuItem('Success stories'), as a whole
TestClickMenuItem(t) ==
    /\ homePages[t] # NoHomePage
    /\ LET h == homePages[t].page
           href == TestedLinks[1].href
       IN  IF browserPages[h].url = HomeUrl
           THEN /\ browserPages' =
                        Received(h, t, [browserPages[h] EXCEPT !.url = href])
                /\ homePages' = [homePages EXCEPT ![t].expect = href]
           ELSE /\ browserPages' = Received(h, t, browserPages[h])
                /\ UNCHANGED homePages
    /\ UNCHANGED << page, call, smoke >>

\* await homePage.getTitle(), as a whole
TestGetTitle(t) ==
    /\ homePages[t] # NoHomePage
    /\ LET h == homePages[t].page
       IN  /\ browserPages' = Received(h, t, browserPages[h])
           /\ homePages' = [homePages EXCEPT ![t].title = browserPages[h].url]
    /\ UNCHANGED << page, call, smoke >>

ParNext ==
    \/ \E t \in Tests : BeforeEach(t)
    \/ \E t \in Tests : TestGoto(t)
    \/ \E t \in Tests : TestClickMenuItem(t)
    \/ \E t \in Tests : TestGetTitle(t)

\* fullyParallel: the tests of the suite run at the same time, their driver
\* commands interleaved in any order.
ParSpec == Init /\ [][ParNext]_vars

(* ------------------ 'should load the page successfully' ---------------- *)

MessageTypes == {"error", "log"}

\* beforeEach: homePage = new HomePage(page); homePage.goto() is called and
\* the page starts to load.
SmokeGotoStart ==
    /\ tpc = "beforeEach"
    /\ tpc' = "goto"
    /\ UNCHANGED << emitted, listening, consoleErrors, verdict >>
    /\ UNCHANGED << page, call, parallel >>

\* await homePage.goto() is over: a raised failure fails the test in its hook.
SmokeGotoEnd ==
    /\ tpc = "goto"
    /\ \E ok \in BOOLEAN :
        IF ok
        THEN tpc' = "test" /\ UNCHANGED verdict
        ELSE tpc' = "ended" /\ verdict' = "failed"
    /\ UNCHANGED << emitted, listening, consoleErrors >>
    /\ UNCHANGED << page, call, parallel >>

\* the test body up to its await: the URL check, then
\* const consoleErrors = []; page.on('console', handler)
SmokeSubscribe ==
    /\ tpc = "test"
    /\ tpc' = "listening"
    /\ listening' = TRUE
    /\ consoleErrors' = <<>>
    /\ UNCHANGED << emitted, verdict >>
    /\ UNCHANGED << page, call, parallel >>

\* await page.waitForLoadState('domcontentloaded') (page.waitForTimeout(1000)
\* in the older suite) has resolved.
SmokeWait ==
    /\ tpc = "listening"
    /\ tpc' = "compare"
    /\ UNCHANGED << emitted, listening, consoleErrors, verdict >>
    /\ UNCHANGED << page, call, parallel >>

\* expect(consoleErrors).toEqual([])
SmokeExpect ==
    /\ tpc = "compare"
    /\ tpc' = "ended"
    /\ verdict' = IF consoleErrors = <<>> THEN "passed" ELSE "failed"
    /\ UNCHANGED << emitted, listening, consoleErrors >>
    /\ UNCHANGED << page, call, parallel >>

\* The loading page writes a console message; a registered handler runs:
\* if (msg.type() === 'error') consoleErrors.push(msg.text())
PageEmit ==
    /\ tpc \in {"goto", "test", "listening"}
    /\ Len(emitted) < MaxMessages
    /\ \E type \in MessageTypes :
        /\ emitted' = Append(emitted, [type |-> type, during |-> tpc])
        /\ consoleErrors' = IF listening /\ type = "error"
                            THEN Append(consoleErrors, Len(emitted) + 1)
                            ELSE consoleErrors
    /\ UNCHANGED << tpc, listening, verdict >>
    /\ UNCHANGED << page, call, parallel >>

SmokeNext ==
    \/ SmokeGotoStart \/ SmokeGotoEnd \/ SmokeSubscribe \/ SmokeWait
    \/ SmokeExpect \/ PageEmit

SmokeSpec == Init /\ [][SmokeNext]_vars

(* ---------------------------- specification ---------------------------- *)

Next ==
    \/ CallGoto \/ GotoNavigate \/ GotoWaitDom \/ GotoProbe \/ GotoClick
    \/ CallGetTitle \/ GetTitle
    \/ CallWaitForLoadState \/ WaitForLoadState
    \/ CallClickMenuItem \/ CmiProbe \/ CmiToggle \/ CmiNth \/ CmiWaitFor \/ CmiClick
    \/ CallIsLogoVisible \/ CallIsContactButtonVisible
    \/ CallIsNavigationMenuVisible \/ CallIsClientsVisible
    \/ CallIsSuccessStoriesVisible \/ CallIsKnowledgeHubVisible
    \/ CallIsAboutUsVisible \/ ProbeFirst
    \/ CallIsMenuButtonVisible \/ MenuButtonFirst \/ MenuButtonSecond
    \/ EditInsertLink \/ EditRemoveLink \/ EditInsertButton \/ EditRemoveButton
    \/ BannerShow \/ Resize

Spec == Init /\ [][Next]_vars

\* the awaits: each resumes once the driver call it waits on has settled
Steps ==
    \/ GotoNavigate \/ GotoWaitDom \/ GotoProbe \/ GotoClick
    \/ GetTitle \/ WaitForLoadState
    \/ CmiProbe \/ CmiToggle \/ CmiNth \/ CmiWaitFor \/ CmiClick
    \/ ProbeFirst \/ MenuButtonFirst \/ MenuButtonSecond

\* Every driver call settles within the budget the test runner gives it:
\* a call in progress is not suspended forever.
FairSpec == Spec /\ WF_vars(Steps)

TypeOK ==
    /\ viewport \in {"desktop", "mobile"}
    /\ drawerOpen \in BOOLEAN
    /\ consent \in {"none", "pending", "showing", "dismissed"}
    /\ session \in {"up", "crashed"}
    /\ edits \in 0..MaxDomEdits
    /\ result \in {"none", "ok"} \cup Failures
    /\ logged \in BOOLEAN

(* ------------------------------- claims -------------------------------- *)

Ended(name) == op.name = name /\ pc = "done"

Crashed == \E i \in DOMAIN cmds : cmds[i].out = "crash"

ConsentCmd(c) == c.target = "COOKIE_ACCEPT_BUTTON"

\* goto got past page.goto() and the DOM-ready wait
GotoNavigated ==
    /\ Len(cmds) >= 2
    /\ cmds[1].out = "ok"
    /\ cmds[2].out = "ok"

\* C1: whenever the navigation and the DOM-ready wait of goto() succeeded,
\* goto() returns normally, for every consent state and every failure of
\* the consent visibility probe or of the consent click.
C1_GotoNeverFailsOnConsent ==
    (Ended("goto") /\ GotoNavigated) => result = "ok"

\* goto() has returned normally although the consent click timed out on a
\* page without the banner.
C1_Witness ==
    /\ Ended("goto")
    /\ GotoNavigated
    /\ consent = "none"
    /\ Len(cmds) = 4
    /\ cmds[4].cmd = "click"
    /\ cmds[4].out = "timeout"
    /\ result = "ok"

\* C2: when page.goto() or the DOM-ready wait fails, goto() raises that
\* failure unchanged and issues no consent probe, click or log line.
C2_NavigationFailurePropagates ==
    (Ended("goto") /\ ~GotoNavigated) =>
        /\ Len(cmds) \in {1, 2}
        /\ Failed(cmds[Len(cmds)].out)
        /\ result = cmds[Len(cmds)].out
        /\ \A i \in DOMAIN cmds : ~ConsentCmd(cmds[i])
        /\ ~logged

\* goto() has raised the timeout of its DOM-ready wait.
C2_Witness ==
    /\ Ended("goto")
    /\ Len(cmds) = 2
    /\ cmds[1].out = "ok"
    /\ cmds[2].out = "timeout"
    /\ result = "timeout"

\* C3: a session crash raised by any driver call inside any core operation
\* is raised to the caller of that operation.
C3_CrashPropagates ==
    (pc = "done" /\ Crashed) => result = "crash"

\* the page the smoke tests are written against
HomePageAsTested == links = TestedLinks /\ buttons = TestedButtons

TextCall(t) == op.name = "clickMenuItem" /\ op.d = "text" /\ op.text = t

ToggleClick(c) == c.cmd = "click" /\ c.target = "menuButton"
ItemClick(c) == c.cmd = "click" /\ c.target \in {"menuItem", "menuItems.nth"}

\* C4: on the home page with the drawer closed, on either viewport,
\* clickMenuItem('Success stories') returns normally and the page is then
\* at a URL containing success-stories.
C4_MenuNavigatesOnBothViewports ==
    ( /\ TextCall(SuccessStories)
      /\ pc = "done"
      /\ op.url = HomeUrl
      /\ ~op.drawer
      /\ HomePageAsTested
      /\ ~Crashed )
    => (result = "ok" /\ url = "/success-stories")

\* The call has opened the drawer itself on the mobile viewport and
\* reached the success-stories page.
C4_Witness ==
    /\ TextCall(SuccessStories)
    /\ pc = "done"
    /\ op.url = HomeUrl
    /\ ~op.drawer
    /\ HomePageAsTested
    /\ viewport = "mobile"
    /\ Len(cmds) = 4
    /\ ToggleClick(cmds[2])
    /\ result = "ok"
    /\ url = "/success-stories"

\* C5: with a text identifier clickMenuItem never waits on or clicks a link
\* outside the header navigation.
C5_SearchesOnlyNavigation ==
    \A i \in DOMAIN cmds :
        cmds[i].target = "menuItem" => cmds[i].hit # "body"

\* C6: every clickMenuItem call probes the hamburger first; a probe that
\* reports visible is followed by exactly one toggle click, before any menu
\* item command, and a probe that reports not visible by none.
C6_HamburgerProbedFirst ==
    op.name = "clickMenuItem" =>
        /\ (pc = "cmi_probe" <=> cmds = <<>>)
        /\ Len(cmds) >= 1 =>
            /\ cmds[1].cmd = "isVisible"
            /\ cmds[1].target = "menuButton"
            /\ cmds[1].out = "true" =>
                IF Len(cmds) = 1 THEN pc = "cmi_toggle" ELSE ToggleClick(cmds[2])
        /\ \A i \in DOMAIN cmds :
            ToggleClick(cmds[i]) => (i = 2 /\ cmds[1].out = "true")

\* An index-addressed call on the mobile viewport has probed, toggled once
\* and clicked its item.
C6_Witness ==
    /\ Ended("clickMenuItem")
    /\ op.d = "index"
    /\ Len(cmds) = 3
    /\ cmds[1].out = "true"
    /\ ToggleClick(cmds[2])
    /\ ItemClick(cmds[3])
    /\ result = "ok"

\* C7: with a text identifier, when the wait for a visible matching link
\* times out the call raises the timeout and has clicked no menu item.
C7_WaitTimeoutPropagates ==
    ( /\ op.name = "clickMenuItem"
      /\ op.d = "text"
      /\ \E i \in DOMAIN cmds : cmds[i].cmd = "waitFor" /\ cmds[i].out = "timeout" )
    => /\ pc = "done"
       /\ result = "timeout"
       /\ \A j \in DOMAIN cmds : ~ItemClick(cmds[j])

\* A call for a text no link of the loaded page carries has timed out.
C7_Witness ==
    /\ TextCall(Pricing)
    /\ pc = "done"
    /\ Loaded
    /\ LinksNamed(Pricing) = <<>>
    /\ cmds[Len(cmds)].cmd = "waitFor"
    /\ result = "timeout"

\* C8 as stated: clickMenuItem raises only when the wait for the
\* text-addressed item times out.
C8_TimeoutOnlyErrorPath ==
    (Ended("clickMenuItem") /\ result # "ok") =>
        /\ cmds[Len(cmds)].cmd = "waitFor"
        /\ cmds[Len(cmds)].out = "timeout"

\* C8 amended: clickMenuItem catches nothing: it raises exactly when one
\* of its driver calls fails, with that call's failure, and the failed call is
\* the last one it issued.
C8_RaisesItsDriverFailure ==
    Ended("clickMenuItem") =>
        /\ cmds # <<>>
        /\ \A i \in 1..(Len(cmds) - 1) : ~Failed(cmds[i].out)
        /\ result = (IF Failed(cmds[Len(cmds)].out)
                     THEN cmds[Len(cmds)].out ELSE "ok")

\* An index-addressed call has raised the timeout of its click on an index
\* past the end of the menu.
C8_Witness ==
    /\ Ended("clickMenuItem")
    /\ op.d = "index"
    /\ Loaded
    /\ op.n >= Len(MenuItems)
    /\ cmds[Len(cmds)].target = "menuItems.nth"
    /\ result = "timeout"

\* the elements every driver call of the probe found for its descriptor
NothingMatched == \A i \in DOMAIN cmds : cmds[i].seen = <<>>

\* C9: a HomePage visibility probe whose descriptor matches no element
\* returns false and raises nothing.
C9_AbsentElementIsFalse ==
    (Ended("isVisible") /\ ~Crashed /\ NothingMatched) =>
        (result = "ok" /\ ret = "false")

\* isLogoVisible() has returned false on a loaded page without the logo.
C9_Witness ==
    /\ Ended("isVisible")
    /\ op.d = "LOGO"
    /\ Loaded
    /\ Len(cmds) = 1
    /\ NothingMatched
    /\ result = "ok"
    /\ ret = "false"

\* C10: a HomePage visibility probe, isMenuButtonVisible included, whose
\* descriptor matches two or more elements returns the visibility of the
\* first one and raises nothing.
C10_FirstMatchDecides ==
    (Ended("isVisible") /\ ~Crashed /\ Len(cmds[Len(cmds)].seen) >= 2) =>
        (result = "ok" /\ ret = Bool(cmds[Len(cmds)].seen[1]))

\* C11: every goto() that got past its navigation on a live session returns
\* normally and ends on the home page with the drawer closed and the
\* consent banner not showing, whether the banner was showing or consent had
\* already been given, on the first call of a session and on every later one.
C11_GotoIdempotentOnConsent ==
    (Ended("goto") /\ GotoNavigated /\ ~Crashed) =>
        /\ result = "ok"
        /\ url = HomeUrl
        /\ ~drawerOpen
        /\ consent # "showing"

\* A second goto() of a session, issued on the home page after consent was
\* given, has returned on the same page after its consent click timed out.
C11_Witness ==
    /\ Ended("goto")
    /\ op.url = HomeUrl
    /\ GotoNavigated
    /\ Len(cmds) = 4
    /\ cmds[3].out = "false"
    /\ cmds[4].out = "timeout"
    /\ consent = "dismissed"
    /\ url = HomeUrl
    /\ result = "ok"

\* the driver commands of goto() in program order
GotoOrder ==
    << <<"goto", HomeUrl>>,
       <<"waitForLoadState", "domcontentloaded">>,
       <<"isVisible", "COOKIE_ACCEPT_BUTTON">>,
       <<"click", "COOKIE_ACCEPT_BUTTON">> >>

\* the await goto() is suspended at once n of its commands have completed
GotoAwaiting(n) ==
    CASE n = 0 -> "goto_navigate"
      [] n = 1 -> "goto_waitdom"
      [] n = 2 -> "goto_probe"
      [] n = 3 -> "goto_click"
      [] OTHER -> "done"

\* C12: the commands goto() has issued are, at every moment, a prefix of
\* navigate, DOM-ready wait, consent probe, consent click; every command but
\* the last has succeeded, and goto() is suspended at the step that follows
\* the completed ones.
C12_GotoCommandOrder ==
    op.name = "goto" =>
        /\ Len(cmds) <= 4
        /\ \A i \in DOMAIN cmds :
            /\ <<cmds[i].cmd, cmds[i].target>> = GotoOrder[i]
            /\ (i < Len(cmds) /\ i <= 2) => cmds[i].out = "ok"
            /\ i < Len(cmds) => ~Failed(cmds[i].out)
        /\ pc \in {GotoAwaiting(Len(cmds)), "done"}

\* goto() has issued all four commands, the consent click last and
\* successful on a showing banner.
C12_Witness ==
    /\ Ended("goto")
    /\ Len(cmds) = 4
    /\ cmds[3].out = "true"
    /\ cmds[4].cmd = "click"
    /\ cmds[4].out = "ok"
    /\ consent = "dismissed"

IndexCall(n) == op.name = "clickMenuItem" /\ op.d = "index" /\ op.n = n

\* the place in document order of the link at zero-based position n of the
\* navigation links, 0 when the page the call was issued on has none there
NavLinkAt(n) ==
    LET Before(i) == { j \in 1..(i - 1) : links[j].region = "nav" }
        There == { i \in DOMAIN links :
                     links[i].region = "nav" /\ Cardinality(Before(i)) = n }
    IN  IF op.url # BlankUrl /\ There # {} THEN CHOOSE i \in There : TRUE ELSE 0

\* C13: clickMenuItem(n) with a number n issues no text search and no
\* wait-until-visible; its item click addresses the link at zero-based
\* position n of the 'header nav a' collection, whatever its text, and a
\* successful call has loaded the page that link points to.
C13_IndexClicksNthNavLink ==
    \A n \in 0..MaxIndex :
        IndexCall(n) =>
            /\ \A i \in DOMAIN cmds :
                /\ cmds[i].cmd # "waitFor"
                /\ cmds[i].target # "menuItem"
                /\ cmds[i].target = "menuItems.nth" => cmds[i].at = NavLinkAt(n)
            /\ (pc = "done" /\ result = "ok") =>
                /\ NavLinkAt(n) # 0
                /\ url = links[NavLinkAt(n)].href

\* clickMenuItem(0) has clicked the first navigation link of a page whose
\* first navigation link is not "Success stories", and loaded its target.
C13_Witness ==
    /\ IndexCall(0)
    /\ pc = "done"
    /\ result = "ok"
    /\ links[1].region = "nav"
    /\ links[1].name = OurSuccessStories
    /\ cmds[Len(cmds)].at = 1
    /\ url = "/blog"

\* the driver commands of a call that address the text-searched menu item
ItemCmds == { i \in DOMAIN cmds : cmds[i].target = "menuItem" }

\* C14 as claimed: every link clickMenuItem(text) has clicked has a name
\* that contains the text with the same letter case.
C14_CaseSensitiveSubstring ==
    \A t \in Texts :
        TextCall(t) =>
            \A i \in ItemCmds :
                (cmds[i].cmd = "click" /\ cmds[i].out = "ok") =>
                    Contains(links[cmds[i].at].name, t)

\* the first link in document order whose lower-cased name contains the
\* lower-cased text, 0 when the page the call was issued on has none
FoldedMatchAt(t) ==
    LET Hits == { i \in DOMAIN links :
                    Contains(LowerSeq(links[i].name), LowerSeq(t)) }
    IN  IF op.url # BlankUrl /\ Hits # {}
        THEN CHOOSE i \in Hits : \A j \in Hits : i <= j
        ELSE 0

\* C14: clickMenuItem(text) resolves to the first link in document order
\* whose accessible name contains the text as a substring with letter case
\* ignored, and to no link when there is none.
C14_CaseInsensitiveSubstring ==
    \A t \in Texts :
        TextCall(t) =>
            \A i \in ItemCmds : cmds[i].at = FoldedMatchAt(t)

\* clickMenuItem("Success stories") has clicked the link named
\* "success stories" and loaded its target.
C14_Witness ==
    /\ TextCall(SuccessStories)
    /\ pc = "done"
    /\ result = "ok"
    /\ cmds[Len(cmds)].cmd = "click"
    /\ cmds[Len(cmds)].at # 0
    /\ links[cmds[Len(cmds)].at].name = SuccessStoriesLower
    /\ url = "/blog"

C16_ProbedAnewEachCall ==
    (op.name = "clickMenuItem" /\ cmds # <<>> /\ cmds[1].out # "crash") =>
        /\ cmds[1].cmd = "isVisible"
        /\ cmds[1].target = "menuButton"
        /\ pc # "done" => cmds[1].out = IsVisibleStrict(HamburgerFlags)
        /\ Len(cmds) >= 2 => (ToggleClick(cmds[2]) <=> cmds[1].out = "true")

\* After a call that found the hamburger visible and a change of viewport,
\* the next clickMenuItem call has found it hidden and clicked the link
\* without touching the hamburger.
C16_Witness ==
    /\ op.name = "clickMenuItem"
    /\ op.prev = "true"
    /\ pc = "done"
    /\ result = "ok"
    /\ viewport = "desktop"
    /\ cmds[1].out = "false"
    /\ \A i \in DOMAIN cmds : ~ToggleClick(cmds[i])

Observers == {"getTitle", "waitForLoadState", "isVisible"}

InCall == pc \notin {"idle", "done"}

\* C17: getTitle(), waitForLoadState() and the HomePage visibility probes
\* issue no navigate and no click command, and no step of such a call
\* changes the URL, the drawer, the consent state, the viewport or the
\* page's elements; a step that changes the URL or the consent state, or
\* the drawer on an unchanged viewport, is a step of a goto() or
\* clickMenuItem() call in progress.
C17_ObserversChangeNothing ==
    [][ /\ op'.name \in Observers =>
            \A i \in DOMAIN cmds' : cmds'[i].cmd \notin {"goto", "click"}
        /\ (InCall /\ op.name \in Observers) =>
            UNCHANGED << url, drawerOpen, consent, viewport, links, buttons >>
        /\ (\/ url' # url
            \/ consent' # consent
            \/ (drawerOpen' # drawerOpen /\ viewport' = viewport)) =>
                (InCall /\ op.name \in {"goto", "clickMenuItem"})
      ]_vars

\* getTitle() has returned on the home page of a session whose consent was
\* given, and the page is as it was when the call was issued.
C17_Witness ==
    /\ Ended("getTitle")
    /\ result = "ok"
    /\ ret = HomeUrl
    /\ url = op.url
    /\ drawerOpen = op.drawer
    /\ consent = "dismissed"

Suspending == {"goto", "waitForLoadState", "clickMenuItem"}

\* C18 as claimed: a goto(), waitForLoadState() or clickMenuItem() call on a
\* live session has, when it ends, returned or raised a timeout.
C18_ReturnsOrTimesOut ==
    (pc = "done" /\ op.name \in Suspending /\ ~Crashed) =>
        result \in {"ok", "timeout"}

\* C18: with every driver call settling within its budget, every goto(),
\* waitForLoadState() and clickMenuItem() call in progress ends: it returns
\* or raises the failure of one of its driver calls.
C18_CallsEnd ==
    (InCall /\ op.name \in Suspending) ~>
        (pc = "done" /\ result \in {"ok"} \cup Failures)

\* waitForLoadState('networkidle') has ended with the timeout of its wait.
C18_Witness ==
    /\ Ended("waitForLoadState")
    /\ op.d = "networkidle"
    /\ Len(cmds) = 1
    /\ result = "timeout"

\* C19: with tests running in parallel, every browser page has received
\* commands from its own test only, and the page a test's HomePage drives is
\* at the URL that test's own calls have put it at.
C19_TestsIsolated ==
    \A t \in Tests :
        /\ browserPages[t].from \subseteq {t}
        /\ homePages[t] # NoHomePage =>
            browserPages[homePages[t].page].url = homePages[t].expect

\* Two tests have both driven their pages: the first has left the home page
\* through the menu while the second, still on it, has read its title.
C19_Witness ==
    /\ homePages[1] # NoHomePage
    /\ homePages[2] # NoHomePage
    /\ browserPages[1].from = {1}
    /\ browserPages[2].from = {2}
    /\ browserPages[1].url = TestedLinks[1].href
    /\ browserPages[2].url = HomeUrl
    /\ homePages[2].title = HomeUrl

\* the driver commands of each method in program order, one sequence per
\* path through the method
Programs ==
    LET probe == <<"isVisible", "menuButton">>
        toggle == <<"click", "menuButton">>
        nth == <<"click", "menuItems.nth">>
        wait == <<"waitFor", "menuItem">>
        click == <<"click", "menuItem">>
    IN  CASE op.name = "goto" -> { GotoOrder }
          [] op.name = "getTitle" -> { << <<"title", "page">> >> }
          [] op.name = "waitForLoadState" -> { << <<"waitForLoadState", op.d>> >> }
          [] op.name = "isVisible" /\ op.d # "MENU_BUTTON" ->
                { << <<"isVisible", op.d>> >> }
          [] op.name = "isVisible" /\ op.d = "MENU_BUTTON" ->
                { << <<"isVisible", op.d>>, <<"isVisible", op.d>> >> }
          [] op.name = "clickMenuItem" /\ op.d = "index" ->
                { <<probe, nth>>, <<probe, toggle, nth>> }
          [] op.name = "clickMenuItem" /\ op.d = "text" ->
                { <<probe, wait, click>>, <<probe, toggle, wait, click>> }
          [] OTHER -> { <<>> }

IsPrefix(s, t) == Len(s) <= Len(t) /\ SubSeq(t, 1, Len(s)) = s

AtItem == pc \in {"cmi_nth", "cmi_waitfor", "cmi_click"}

\* C21: on the tested page, when clickMenuItem has found the hamburger
\* visible and has reached the step that addresses the menu item, the drawer
\* is open, whatever its state was when the call was issued; and such a call
\* for a link of the menu, ended on a live session, has returned normally.
C21_DrawerOpenAtItemClick ==
    (/\ op.name = "clickMenuItem"
     /\ HomePageAsTested
     /\ op.url = HomeUrl
     /\ cmds # <<>>
     /\ cmds[1].out = "true") =>
        /\ AtItem => drawerOpen
        /\ (pc = "done" /\ ~Crashed /\ op.d = "text" /\ op.text # Pricing) =>
                result = "ok"

\* the places in `emitted` of the errors written while goto() was loading
\* the page
LoadErrors ==
    { i \in DOMAIN emitted :
        emitted[i].type = "error" /\ emitted[i].during = "goto" }

\* C22: when the load test compares consoleErrors with the empty list, every
\* error message the page wrote during the load started by goto() is in the
\* list, so a test that passed saw a load without console errors.
C22_LoadErrorsCaptured ==
    /\ tpc = "compare" =>
        \A i \in LoadErrors : \E k \in DOMAIN consoleErrors : consoleErrors[k] = i
    /\ verdict = "passed" => LoadErrors = {}

====
